---- MODULE Spec2Model ----
(***************************************************************************)
(* The public C API of chromaprint (src/chromaprint.cpp) as a state         *)
(* machine: one fingerprinter context, one matcher context and the          *)
(* standalone codec entry points.  The classes the API delegates to         *)
(* (Fingerprinter, FingerprintCompressor/Decompressor, Base64,              *)
(* FingerprintMatcher) live outside chromaprint.cpp and are modelled from   *)
(* the written specification.                                               *)
(***************************************************************************)
EXTENDS Integers, Sequences, FiniteSets, TLC

VARIABLES
    ctx,    \* ChromaprintContextPrivate: finished, algorithm, fingerprinter, fingerprint
    ret,    \* result of the last call on ctx: operation, return code, output written
    hist,   \* history of ctx: last lifecycle call, and whether a successful Start is open
    mctx,   \* ChromaprintMatcherContextPrivate: algorithm, matcher (segments), fp[0..1]
    mret,   \* result of the last call on mctx
    slotAlg,\* history of mctx: the AlgorithmId the sequence held in each slot came with
    codec,  \* the last standalone encode/decode/hash call: arguments and outputs
    pcm,    \* the PCM stream a caller feeds to ctx chunk by chunk, and how far it got
    sess    \* several live contexts at once: the objects and each caller's handle

vars == <<ctx, ret, hist, mctx, mret, slotAlg, codec, pcm, sess>>

\* the variables only the chunked-feed and the several-contexts runs use
aux == <<pcm, sess>>

----------------------------------------------------------------------------
(* Bounds of the model *)

\* longest raw fingerprint handed to the codec and to the matcher
MaxLen == 2
\* AlgorithmIds range over 0..MaxAlgorithm
MaxAlgorithm == 1
\* the model stops feeding a context whose fingerprint would pass MaxFrames items
MaxFrames == 1
\* longest PCM chunk of one Feed call
MaxChunk == 1

\* Subfingerprints used as inputs: as a delta 0 takes one byte of the stream,
\* 130 takes two, 2^28 + 1 takes five.
Words == {0, 130, 268435457}

Algorithms == 0 .. MaxAlgorithm

RawFingerprints == UNION {[1 .. n -> Words] : n \in 0 .. MaxLen}

\* longest raw fingerprint handed to the matcher
MaxMatchLen == 2

\* longest PCM stream, in samples, fed chunk by chunk
MaxPcm == 4

\* longest raw fingerprint handed to chromaprint_hash_fingerprint
MaxHashLen == 3

\* callers that hold a context of their own at the same time
NumCallers == 2

\* longest raw fingerprint of a Run whose segments are read
MaxOrderLen == 3

\* longest segment whose score is read: raw scores are the fractions
\* sum / count with count up to this
MaxScoreCount == 2

\* subfingerprints whose bits overlap in part
HashWords == {0, 1, 3}

HashFingerprints == UNION {[1 .. n -> HashWords] : n \in 0 .. MaxHashLen}

\* Subfingerprints handed to the matcher
MatchWords == {0, 1}

MatchFingerprints == UNION {[1 .. n -> MatchWords] : n \in 0 .. MaxMatchLen}

\* Marker of an output parameter the call did not write.
NoOutput == "none"

----------------------------------------------------------------------------
(* 32-bit words *)

RECURSIVE Xor(_, _)
Xor(a, b) ==
    IF a = 0 THEN b
    ELSE IF b = 0 THEN a
    ELSE (((a % 2) + (b % 2)) % 2) + 2 * Xor(a \div 2, b \div 2)

RECURSIVE PopCount(_)
PopCount(a) == IF a = 0 THEN 0 ELSE (a % 2) + PopCount(a \div 2)

HammingDistance(a, b) == PopCount(Xor(a, b))

----------------------------------------------------------------------------
(* Codec: [AlgorithmId: 1 byte][variable-length XOR-delta stream] *)

\* a delta code holds 7 payload bits per byte, so a 32-bit delta takes at most 5
MaxCodeBytes == 5

\* One delta, least significant 7 bits first; bit 7 of a byte says another follows.
RECURSIVE EncodeDelta(_)
EncodeDelta(v) ==
    IF v < 128 THEN <<v>>
    ELSE <<128 + (v % 128)>> \o EncodeDelta(v \div 128)

RECURSIVE EncodeDeltas(_, _)
EncodeDeltas(fp, prev) ==
    IF fp = <<>> THEN <<>>
    ELSE EncodeDelta(Xor(Head(fp), prev)) \o EncodeDeltas(Tail(fp), Head(fp))

CompressFingerprint(fp, algorithm) ==
    <<algorithm % 256>> \o EncodeDeltas(fp, 0)

\* Reads one delta code of bytes starting at pos; k bytes of it are already read
\* and weigh `scale`.  A code cut off by the end of the stream, or one that runs
\* past 32 bits, is corrupt.
RECURSIVE ReadDelta(_, _, _, _, _)
ReadDelta(bytes, pos, k, scale, acc) ==
    IF pos > Len(bytes) THEN [ok |-> FALSE, value |-> 0, next |-> pos]
    ELSE LET b == bytes[pos] IN
         IF k = MaxCodeBytes - 1 /\ b >= 16
            THEN [ok |-> FALSE, value |-> 0, next |-> pos]
         ELSE IF b < 128
            THEN [ok |-> TRUE, value |-> acc + b * scale, next |-> pos + 1]
         ELSE ReadDelta(bytes, pos + 1, k + 1, scale * 128, acc + (b - 128) * scale)

RECURSIVE DecodeDeltas(_, _, _, _)
DecodeDeltas(bytes, pos, prev, out) ==
    IF pos > Len(bytes) THEN [ok |-> TRUE, fp |-> out]
    ELSE LET d == ReadDelta(bytes, pos, 0, 1, 0) IN
         IF ~d.ok THEN [ok |-> FALSE, fp |-> <<>>]
         ELSE LET w == Xor(d.value, prev) IN
              DecodeDeltas(bytes, d.next, w, Append(out, w))

\* The decompressor's result: on corrupt input it yields no sequence and does
\* not write the algorithm.
DecompressFingerprint(bytes) ==
    IF bytes = <<>> THEN [ok |-> FALSE, fp |-> <<>>, algorithm |-> NoOutput]
    ELSE LET r == DecodeDeltas(bytes, 2, 0, <<>>) IN
         IF r.ok THEN [ok |-> TRUE, fp |-> r.fp, algorithm |-> bytes[1]]
         ELSE [ok |-> FALSE, fp |-> <<>>, algorithm |-> NoOutput]

----------------------------------------------------------------------------
(* Base64, URL-safe alphabet, padding emitted on encode and optional on decode *)

Base64Chars ==
    <<65, 66, 67, 68, 69, 70, 71, 72, 73, 74, 75, 76, 77,
      78, 79, 80, 81, 82, 83, 84, 85, 86, 87, 88, 89, 90,
      97, 98, 99, 100, 101, 102, 103, 104, 105, 106, 107, 108, 109,
      110, 111, 112, 113, 114, 115, 116, 117, 118, 119, 120, 121, 122,
      48, 49, 50, 51, 52, 53, 54, 55, 56, 57, 45, 95>>

\* '='
Base64Pad == 61

Base64Char(sextet) == Base64Chars[sextet + 1]

Base64Value(ch) == (CHOOSE i \in 1 .. 64 : Base64Chars[i] = ch) - 1

RECURSIVE Base64Encode(_)
Base64Encode(bytes) ==
    IF Len(bytes) = 0 THEN <<>>
    ELSE IF Len(bytes) = 1 THEN
        <<Base64Char(bytes[1] \div 4), Base64Char((bytes[1] % 4) * 16),
          Base64Pad, Base64Pad>>
    ELSE IF Len(bytes) = 2 THEN
        <<Base64Char(bytes[1] \div 4),
          Base64Char((bytes[1] % 4) * 16 + bytes[2] \div 16),
          Base64Char((bytes[2] % 16) * 4), Base64Pad>>
    ELSE
        <<Base64Char(bytes[1] \div 4),
          Base64Char((bytes[1] % 4) * 16 + bytes[2] \div 16),
          Base64Char((bytes[2] % 16) * 4 + bytes[3] \div 64),
          Base64Char(bytes[3] % 64)>>
        \o Base64Encode(SubSeq(bytes, 4, Len(bytes)))

RECURSIVE Base64DecodeSextets(_)
Base64DecodeSextets(s) ==
    IF Len(s) < 2 THEN <<>>
    ELSE IF Len(s) = 2 THEN <<s[1] * 4 + s[2] \div 16>>
    ELSE IF Len(s) = 3 THEN
        <<s[1] * 4 + s[2] \div 16, (s[2] % 16) * 16 + s[3] \div 4>>
    ELSE
        <<s[1] * 4 + s[2] \div 16, (s[2] % 16) * 16 + s[3] \div 4,
          (s[3] % 4) * 64 + s[4]>>
        \o Base64DecodeSextets(SubSeq(s, 5, Len(s)))

Base64Decode(text) ==
    LET chars == SelectSeq(text, LAMBDA ch : ch # Base64Pad)
    IN  Base64DecodeSextets([i \in 1 .. Len(chars) |-> Base64Value(chars[i])])

----------------------------------------------------------------------------
(* SimilarityDigest: per bit position, set iff set in a strict majority *)

RECURSIVE SimHashFrom(_, _)
SimHashFrom(fp, k) ==
    \* no bit is left to count once every item is used up
    IF k = 32 \/ \A i \in 1 .. Len(fp) : fp[i] = 0 THEN 0
    ELSE LET ones == Cardinality({i \in 1 .. Len(fp) : fp[i] % 2 = 1})
             rest == [i \in 1 .. Len(fp) |-> fp[i] \div 2]
         IN  (IF 2 * ones > Len(fp) THEN 1 ELSE 0) + 2 * SimHashFrom(rest, k + 1)

SimHash(fp) == SimHashFrom(fp, 0)

----------------------------------------------------------------------------
(* Fingerprinter: Start / Consume / Finish over the feature pipeline.       *)
(* The pipeline is reduced to its framing: FrameSize mono samples make one  *)
(* frame, one frame makes one subfingerprint, and each classifier bit is a  *)
(* threshold rule on one sample of the frame.                               *)

\* mono samples per frame
FrameSize == 2

\* PCM sample values
Samples == {0, 1}

Chunks == UNION {[1 .. n -> Samples] : n \in 0 .. MaxChunk}

SampleRates == {0, 11025}

ChannelCounts == {1, 2, 3}

OptionNames == {"silence_threshold", "no_such_option"}

OptionValues == {0, 1}

NewFingerprinter ==
    [sample_rate |-> 11025, num_channels |-> 1, silence_threshold |-> 0,
     pending |-> <<>>, fingerprint |-> <<>>]

\* interleaved samples of one frame, mixed down to mono
Downmix(raw, num_channels) ==
    [i \in 1 .. FrameSize |->
        IF num_channels = 1 THEN raw[i]
        ELSE (raw[2 * i - 1] + raw[2 * i]) \div 2]

RECURSIVE ClassifyFrom(_, _)
ClassifyFrom(mono, i) ==
    IF i > Len(mono) THEN 0
    ELSE (IF mono[i] > 0 THEN 1 ELSE 0) + 2 * ClassifyFrom(mono, i + 1)

\* one subfingerprint per frame
Classify(mono) == ClassifyFrom(mono, 1)

IsSilent(mono, threshold) ==
    threshold > 0 /\ \A i \in 1 .. Len(mono) : mono[i] < threshold

\* turns every complete frame of f.pending into a subfingerprint
RECURSIVE ProcessFrames(_)
ProcessFrames(f) ==
    LET need == FrameSize * f.num_channels IN
    IF Len(f.pending) < need THEN f
    ELSE LET mono == Downmix(SubSeq(f.pending, 1, need), f.num_channels)
             rest == SubSeq(f.pending, need + 1, Len(f.pending))
         IN  ProcessFrames(
                [f EXCEPT !.pending = rest,
                          !.fingerprint =
                              IF IsSilent(mono, f.silence_threshold) THEN @
                              ELSE Append(@, Classify(mono))])

Fingerprinter_SetOption(f, name, value) ==
    IF name = "silence_threshold"
        THEN [ok |-> TRUE, f |-> [f EXCEPT !.silence_threshold = value]]
        ELSE [ok |-> FALSE, f |-> f]

\* resets and configures; invalid arguments leave the fingerprinter untouched
Fingerprinter_Start(f, sample_rate, num_channels) ==
    IF sample_rate <= 0 \/ num_channels \notin {1, 2}
        THEN [ok |-> FALSE, f |-> f]
        ELSE [ok |-> TRUE,
              f |-> [f EXCEPT !.sample_rate = sample_rate,
                              !.num_channels = num_channels,
                              !.pending = <<>>,
                              !.fingerprint = <<>>]]

\* purely appends; incomplete frames stay buffered across calls
Fingerprinter_Consume(f, data) ==
    ProcessFrames([f EXCEPT !.pending = @ \o data])

\* flushes the last partial frame, zero-padded, and hands out the sequence
Fingerprinter_Finish(f) ==
    LET need == FrameSize * f.num_channels
        padded == f.pending \o [i \in 1 .. need - Len(f.pending) |-> 0]
        g == IF f.pending = <<>> THEN f
             ELSE ProcessFrames([f EXCEPT !.pending = padded])
    IN  [f |-> g, fingerprint |-> g.fingerprint]

----------------------------------------------------------------------------
(* The fingerprinter API of chromaprint.cpp.  Each operator is one C        *)
(* function: it takes the context and the arguments and yields the context  *)
(* after the call, the return code and the output written (NoOutput when    *)
(* the call wrote none).                                                    *)

chromaprint_new(algorithm) ==
    [finished |-> FALSE, algorithm |-> algorithm,
     fingerprinter |-> NewFingerprinter, fingerprint |-> <<>>]

chromaprint_set_option(c, name, value) ==
    LET r == Fingerprinter_SetOption(c.fingerprinter, name, value)
    IN  [ctx |-> [c EXCEPT !.fingerprinter = r.f],
         rc |-> IF r.ok THEN 1 ELSE 0, wrote |-> FALSE, out |-> NoOutput]

\* chromaprint_start without line 78: the finished flag survives a Start
chromaprint_start_keeps_finished(c, sample_rate, num_channels) ==
    LET r == Fingerprinter_Start(c.fingerprinter, sample_rate, num_channels)
    IN  [ctx |-> [c EXCEPT !.fingerprinter = r.f],
         rc |-> IF r.ok THEN 1 ELSE 0, wrote |-> FALSE, out |-> NoOutput]

chromaprint_start(c, sample_rate, num_channels) ==
    LET c1 == [c EXCEPT !.finished = FALSE]
        r == Fingerprinter_Start(c1.fingerprinter, sample_rate, num_channels)
    IN  [ctx |-> [c1 EXCEPT !.fingerprinter = r.f],
         rc |-> IF r.ok THEN 1 ELSE 0, wrote |-> FALSE, out |-> NoOutput]

\* chromaprint_feed handing over length - 1 samples (line 85)
chromaprint_feed_short(c, data) ==
    [ctx |-> [c EXCEPT !.fingerprinter =
                Fingerprinter_Consume(@, SubSeq(data, 1, Len(data) - 1))],
     rc |-> 1, wrote |-> FALSE, out |-> NoOutput]

chromaprint_feed(c, data) ==
    [ctx |-> [c EXCEPT !.fingerprinter = Fingerprinter_Consume(@, data)],
     rc |-> 1, wrote |-> FALSE, out |-> NoOutput]

chromaprint_finish(c) ==
    LET r == Fingerprinter_Finish(c.fingerprinter)
    IN  [ctx |-> [c EXCEPT !.fingerprinter = r.f,
                           !.fingerprint = r.fingerprint,
                           !.finished = TRUE],
         rc |-> 1, wrote |-> FALSE, out |-> NoOutput]

\* chromaprint_get_fingerprint compressing under AlgorithmId 0 whatever
\* ctx->algorithm is (line 101)
chromaprint_get_fingerprint_default_algorithm(c) ==
    IF ~c.finished THEN [ctx |-> c, rc |-> 0, wrote |-> FALSE, out |-> NoOutput]
    ELSE [ctx |-> c, rc |-> 1, wrote |-> TRUE,
          out |-> Base64Encode(CompressFingerprint(c.fingerprint, 0))]

chromaprint_get_fingerprint(c) ==
    IF ~c.finished THEN [ctx |-> c, rc |-> 0, wrote |-> FALSE, out |-> NoOutput]
    ELSE [ctx |-> c, rc |-> 1, wrote |-> TRUE,
          out |-> Base64Encode(CompressFingerprint(c.fingerprint, c.algorithm))]

\* allocated: whether malloc returned a block (line 115)
chromaprint_get_raw_fingerprint(c, allocated) ==
    IF ~c.finished THEN [ctx |-> c, rc |-> 0, wrote |-> FALSE, out |-> NoOutput]
    ELSE IF ~allocated
        THEN [ctx |-> c, rc |-> 0, wrote |-> TRUE, out |-> [data |-> "NULL"]]
    ELSE [ctx |-> c, rc |-> 1, wrote |-> TRUE,
          out |-> [data |-> c.fingerprint, size |-> Len(c.fingerprint)]]

chromaprint_get_fingerprint_hash(c) ==
    IF ~c.finished THEN [ctx |-> c, rc |-> 0, wrote |-> FALSE, out |-> NoOutput]
    ELSE [ctx |-> c, rc |-> 1, wrote |-> TRUE, out |-> SimHash(c.fingerprint)]

----------------------------------------------------------------------------
(* FingerprintMatcher: offset search, then segmentation at the best offset. *)
(* Positions are 0-based indexes into the two sequences.                    *)

\* a pair of subfingerprints at most this many bits apart is similar
SimilarThreshold == 0

\* an offset is accepted when more than this many of its pairs are similar
VoteThreshold == 0

Abs(x) == IF x < 0 THEN 0 - x ELSE x

\* the indexes i of fp1 that offset d pairs with index i - d of fp2
Overlap(fp1, fp2, d) ==
    {i \in 0 .. Len(fp1) - 1 : i - d >= 0 /\ i - d <= Len(fp2) - 1}

PairDistance(fp1, fp2, d, i) == HammingDistance(fp1[i + 1], fp2[i - d + 1])

Votes(fp1, fp2, d) ==
    Cardinality({i \in Overlap(fp1, fp2, d) :
                    PairDistance(fp1, fp2, d, i) <= SimilarThreshold})

\* higher vote count first, then smaller absolute offset, then the offset >= 0
BetterOffset(fp1, fp2, d, e) ==
    LET vd == Votes(fp1, fp2, d)
        ve == Votes(fp1, fp2, e)
    IN  \/ vd > ve
        \/ vd = ve /\ Abs(d) < Abs(e)
        \/ vd = ve /\ Abs(d) = Abs(e) /\ d > e

AcceptedOffsets(fp1, fp2) ==
    {d \in (1 - Len(fp2)) .. (Len(fp1) - 1) : Votes(fp1, fp2, d) > VoteThreshold}

RECURSIVE SumDistances(_, _, _, _, _)
SumDistances(fp1, fp2, d, i, n) ==
    IF n = 0 THEN 0
    ELSE PairDistance(fp1, fp2, d, i)
         + SumDistances(fp1, fp2, d, i + 1, n - 1)

\* the maximal runs of similar pairs at offset d, from index i on; `start` is
\* the index the open run began at, or -1 when no run is open
RECURSIVE Segmentation(_, _, _, _, _, _)
Segmentation(fp1, fp2, d, i, start, out) ==
    LET close ==
            IF start < 0 THEN out
            ELSE Append(out,
                    [pos1 |-> start, pos2 |-> start - d, duration |-> i - start,
                     score |-> [sum |-> SumDistances(fp1, fp2, d, start, i - start),
                                count |-> i - start]])
    IN  IF i > Len(fp1) - 1 THEN close
        ELSE IF i \in Overlap(fp1, fp2, d)
                /\ PairDistance(fp1, fp2, d, i) <= SimilarThreshold
            THEN Segmentation(fp1, fp2, d, i + 1,
                              IF start < 0 THEN i ELSE start, out)
        ELSE Segmentation(fp1, fp2, d, i + 1, 0 - 1, close)

\* FingerprintMatcher::Match: the result and the segment list it leaves
Match(fp1, fp2) ==
    IF fp1 = <<>> \/ fp2 = <<>> THEN [ok |-> FALSE, segments |-> <<>>]
    ELSE LET acc == AcceptedOffsets(fp1, fp2) IN
         IF acc = {} THEN [ok |-> TRUE, segments |-> <<>>]
         ELSE LET best == CHOOSE d \in acc :
                            \A e \in acc \ {d} : BetterOffset(fp1, fp2, d, e)
              IN  [ok |-> TRUE,
                   segments |-> Segmentation(fp1, fp2, best, 0, 0 - 1, <<>>)]

----------------------------------------------------------------------------
(* The matcher API of chromaprint.cpp.  Slot idx of the C array fp[2] is    *)
(* element idx + 1 of the tuple m.fp.                                       *)

chromaprint_matcher_new(version) ==
    [algorithm |-> version, matcher |-> [segments |-> <<>>],
     fp |-> <<<<>>, <<>>>>]

\* indeterminate: the value the uninitialised local `algorithm` (line 184)
\* holds when the decompressor did not write it
chromaprint_matcher_set_fingerprint(m, idx, fp, indeterminate) ==
    IF idx < 0 \/ idx > 1
        THEN [ctx |-> m, rc |-> 0, wrote |-> FALSE, out |-> NoOutput]
    ELSE LET d == DecompressFingerprint(Base64Decode(fp))
             algorithm == IF d.ok THEN d.algorithm ELSE indeterminate
             m1 == [m EXCEPT !.fp[idx + 1] = d.fp]
         IN  IF algorithm # m.algorithm
                THEN [ctx |-> m1, rc |-> 0, wrote |-> FALSE, out |-> NoOutput]
                ELSE [ctx |-> m1, rc |-> 1, wrote |-> FALSE, out |-> NoOutput]

\* chromaprint_matcher_set_raw_fingerprint dropping the segments of the last
\* Run along with the slot's old content (line 195)
chromaprint_matcher_set_raw_fingerprint_resets(m, idx, fp) ==
    IF idx < 0 \/ idx > 1
        THEN [ctx |-> m, rc |-> 0, wrote |-> FALSE, out |-> NoOutput]
    ELSE [ctx |-> [m EXCEPT !.fp[idx + 1] = fp, !.matcher.segments = <<>>],
          rc |-> 1, wrote |-> FALSE, out |-> NoOutput]

chromaprint_matcher_set_raw_fingerprint(m, idx, fp) ==
    IF idx < 0 \/ idx > 1
        THEN [ctx |-> m, rc |-> 0, wrote |-> FALSE, out |-> NoOutput]
    ELSE [ctx |-> [m EXCEPT !.fp[idx + 1] = fp],
          rc |-> 1, wrote |-> FALSE, out |-> NoOutput]

chromaprint_matcher_run(m) ==
    IF m.fp[1] = <<>>
        THEN [ctx |-> m, rc |-> 0, wrote |-> FALSE, out |-> NoOutput]
    ELSE IF m.fp[2] = <<>>
        THEN [ctx |-> m, rc |-> 0, wrote |-> FALSE, out |-> NoOutput]
    ELSE LET r == Match(m.fp[1], m.fp[2])
         IN  [ctx |-> [m EXCEPT !.matcher.segments = r.segments],
              rc |-> IF r.ok THEN 1 ELSE 0, wrote |-> FALSE, out |-> NoOutput]

chromaprint_matcher_get_num_segments(m) ==
    [ctx |-> m, rc |-> 1, wrote |-> TRUE, out |-> Len(m.matcher.segments)]

\* chromaprint_matcher_get_segment_position reading segments[0] whatever
\* idx is (lines 223-225)
chromaprint_matcher_get_segment_position_first(m, idx) ==
    LET segments == m.matcher.segments IN
    IF idx < 0 \/ idx >= Len(segments)
        THEN [ctx |-> m, rc |-> 0, wrote |-> FALSE, out |-> NoOutput]
    ELSE [ctx |-> m, rc |-> 1, wrote |-> TRUE,
          out |-> [pos1 |-> segments[1].pos1,
                   pos2 |-> segments[1].pos2,
                   duration |-> segments[1].duration]]

chromaprint_matcher_get_segment_position(m, idx) ==
    LET segments == m.matcher.segments IN
    IF idx < 0 \/ idx >= Len(segments)
        THEN [ctx |-> m, rc |-> 0, wrote |-> FALSE, out |-> NoOutput]
    ELSE [ctx |-> m, rc |-> 1, wrote |-> TRUE,
          out |-> [pos1 |-> segments[idx + 1].pos1,
                   pos2 |-> segments[idx + 1].pos2,
                   duration |-> segments[idx + 1].duration]]

\* samples of the canonical 11025 Hz stream between two subfingerprints
HopSize == 1365

\* FingerprintMatcher::GetHashTime: the wall-clock time of subfingerprint
\* `index`, index * hop_size / sample_rate seconds, as a fraction
GetHashTime(index) == [num |-> index * HopSize, den |-> 11025]

\* round(): the nearest integer to num / den (den > 0), halves away from zero
Round(num, den) ==
    IF num >= 0 THEN (2 * num + den) \div (2 * den)
    ELSE 0 - ((2 * (0 - num) + den) \div (2 * den))

Max(a, b) == IF a > b THEN a ELSE b

Min(a, b) == IF a < b THEN a ELSE b

\* chromaprint_matcher_get_segment_position_ms with the upper index test
\* one too strict (line 234)
chromaprint_matcher_get_segment_position_ms_strict(m, idx) ==
    LET segments == m.matcher.segments
        ms(index) == Round(1000 * GetHashTime(index).num, GetHashTime(index).den)
    IN
    IF idx < 0 \/ idx >= Len(segments) - 1
        THEN [ctx |-> m, rc |-> 0, wrote |-> FALSE, out |-> NoOutput]
    ELSE [ctx |-> m, rc |-> 1, wrote |-> TRUE,
          out |-> [pos1 |-> ms(segments[idx + 1].pos1),
                   pos2 |-> ms(segments[idx + 1].pos2),
                   duration |-> ms(segments[idx + 1].duration)]]

chromaprint_matcher_get_segment_position_ms(m, idx) ==
    LET segments == m.matcher.segments
        ms(index) == Round(1000 * GetHashTime(index).num, GetHashTime(index).den)
    IN
    IF idx < 0 \/ idx >= Len(segments)
        THEN [ctx |-> m, rc |-> 0, wrote |-> FALSE, out |-> NoOutput]
    ELSE [ctx |-> m, rc |-> 1, wrote |-> TRUE,
          out |-> [pos1 |-> ms(segments[idx + 1].pos1),
                   pos2 |-> ms(segments[idx + 1].pos2),
                   duration |-> ms(segments[idx + 1].duration)]]

\* chromaprint_matcher_get_segment_score with the cast to int applied to the
\* unrounded value (line 250)
chromaprint_matcher_get_segment_score_truncates(m, idx) ==
    LET segments == m.matcher.segments IN
    IF idx < 0 \/ idx >= Len(segments)
        THEN [ctx |-> m, rc |-> 0, wrote |-> FALSE, out |-> NoOutput]
    ELSE LET score == segments[idx + 1].score
         IN  [ctx |-> m, rc |-> 1, wrote |-> TRUE,
              out |-> Max(0, Min(100,
                        (3200 * score.count - 100 * score.sum)
                            \div (32 * score.count)))]

\* the segment's score is the fraction score.sum / score.count, so
\* 100 * (1.0 - score / 32.0) is (3200 * count - 100 * sum) / (32 * count)
chromaprint_matcher_get_segment_score(m, idx) ==
    LET segments == m.matcher.segments IN
    IF idx < 0 \/ idx >= Len(segments)
        THEN [ctx |-> m, rc |-> 0, wrote |-> FALSE, out |-> NoOutput]
    ELSE LET score == segments[idx + 1].score
         IN  [ctx |-> m, rc |-> 1, wrote |-> TRUE,
              out |-> Max(0, Min(100,
                        Round(3200 * score.count - 100 * score.sum,
                              32 * score.count)))]

----------------------------------------------------------------------------
(* The standalone codec entry points of chromaprint.cpp.  fp holds `size`   *)
(* items and encoded_fp holds `encoded_size` bytes.                         *)

chromaprint_encode_fingerprint(fp, algorithm, base64) ==
    LET compressed == CompressFingerprint(fp, algorithm)
        encoded == IF base64 # 0 THEN Base64Encode(compressed) ELSE compressed
    IN  [rc |-> 1, encoded_fp |-> encoded, encoded_size |-> Len(encoded)]

\* chromaprint_decode_fingerprint without lines 150-152: the base64 flag is
\* ignored and the text is decompressed as it came
chromaprint_decode_fingerprint_ignores_base64(encoded_fp, base64) ==
    LET d == DecompressFingerprint(encoded_fp)
    IN  [rc |-> 1, fp |-> d.fp, size |-> Len(d.fp),
         wrote_algorithm |-> d.ok, algorithm |-> d.algorithm]

chromaprint_decode_fingerprint(encoded_fp, base64) ==
    LET encoded == IF base64 # 0 THEN Base64Decode(encoded_fp) ELSE encoded_fp
        d == DecompressFingerprint(encoded)
    IN  [rc |-> 1, fp |-> d.fp, size |-> Len(d.fp),
         wrote_algorithm |-> d.ok, algorithm |-> d.algorithm]

\* chromaprint_hash_fingerprint hashing size - 1 items (line 165)
chromaprint_hash_fingerprint_short(fp, size, fp_null, hash_null) ==
    IF fp_null \/ size < 0 \/ hash_null
        THEN [rc |-> 0, wrote |-> FALSE, out |-> NoOutput]
    ELSE [rc |-> 1, wrote |-> TRUE, out |-> SimHash(SubSeq(fp, 1, size - 1))]

\* fp_null, hash_null: whether the caller passed NULL for fp, for hash
chromaprint_hash_fingerprint(fp, size, fp_null, hash_null) ==
    IF fp_null \/ size < 0 \/ hash_null
        THEN [rc |-> 0, wrote |-> FALSE, out |-> NoOutput]
    ELSE [rc |-> 1, wrote |-> TRUE, out |-> SimHash(SubSeq(fp, 1, size))]

----------------------------------------------------------------------------
(* Initial states *)

NoCall == [op |-> "new", rc |-> 1, wrote |-> FALSE, out |-> NoOutput]

NoCodecCall ==
    [op |-> "none", base64 |-> 0, encoded_fp |-> <<>>, rc |-> 1,
     fp |-> <<>>, algorithm |-> 0, wrote_algorithm |-> FALSE,
     whole |-> FALSE, src_fp |-> <<>>, src_algorithm |-> 0]

\* no stream is being fed chunk by chunk
NoStream ==
    [whole |-> <<>>, fed |-> 0, num_channels |-> 1, chunks |-> 0, cut |-> FALSE]

\* no further context is live
NoSessions ==
    [live |-> {}, heap |-> <<>>, mlive |-> {}, mheap |-> <<>>,
     kind |-> <<>>, stage |-> <<>>, handle |-> <<>>, alone |-> <<>>,
     malone |-> <<>>]

\* a fingerprinter context fresh from chromaprint_new
Init ==
    /\ \E algorithm \in Algorithms : ctx = chromaprint_new(algorithm)
    /\ ret = NoCall
    /\ hist = [last |-> "none", open |-> FALSE]
    /\ mctx = chromaprint_matcher_new(0)
    /\ mret = NoCall
    /\ slotAlg = <<{}, {}>>
    /\ codec = NoCodecCall
    /\ pcm = NoStream
    /\ sess = NoSessions

\* a matcher context fresh from chromaprint_matcher_new
MatcherInit ==
    /\ ctx = chromaprint_new(0)
    /\ ret = NoCall
    /\ hist = [last |-> "none", open |-> FALSE]
    /\ \E version \in Algorithms : mctx = chromaprint_matcher_new(version)
    /\ mret = NoCall
    /\ slotAlg = <<{}, {}>>
    /\ codec = NoCodecCall
    /\ pcm = NoStream
    /\ sess = NoSessions

\* no context: the codec entry points take none
CodecInit ==
    /\ ctx = chromaprint_new(0)
    /\ ret = NoCall
    /\ hist = [last |-> "none", open |-> FALSE]
    /\ mctx = chromaprint_matcher_new(0)
    /\ mret = NoCall
    /\ slotAlg = <<{}, {}>>
    /\ codec = NoCodecCall
    /\ pcm = NoStream
    /\ sess = NoSessions

----------------------------------------------------------------------------
(* Calls on the fingerprinter context *)

Returned(op, r) == [op |-> op, rc |-> r.rc, wrote |-> r.wrote, out |-> r.out]

FramesAfterFinish(f) ==
    Len(f.fingerprint) + (IF f.pending = <<>> THEN 0 ELSE 1)

SetOption ==
    \E name \in OptionNames, value \in OptionValues :
        LET r == chromaprint_set_option(ctx, name, value) IN
        /\ ctx' = r.ctx
        /\ ret' = Returned("set_option", r)
        /\ UNCHANGED <<aux, hist, mctx, mret, slotAlg, codec>>

Start ==
    \E sample_rate \in SampleRates, num_channels \in ChannelCounts :
        LET r == chromaprint_start(ctx, sample_rate, num_channels) IN
        /\ ctx' = r.ctx
        /\ ret' = Returned("start", r)
        /\ hist' = [last |-> "start", open |-> hist.open \/ r.rc = 1]
        /\ UNCHANGED <<aux, mctx, mret, slotAlg, codec>>

Feed ==
    \E data \in Chunks :
        LET r == chromaprint_feed(ctx, data) IN
        /\ FramesAfterFinish(r.ctx.fingerprinter) <= MaxFrames
        /\ ctx' = r.ctx
        /\ ret' = Returned("feed", r)
        /\ UNCHANGED <<aux, hist, mctx, mret, slotAlg, codec>>

Finish ==
    LET r == chromaprint_finish(ctx) IN
    /\ ctx' = r.ctx
    /\ ret' = Returned("finish", r)
    /\ hist' = [last |-> "finish", open |-> FALSE]
    /\ UNCHANGED <<aux, mctx, mret, slotAlg, codec>>

GetFingerprint ==
    LET r == chromaprint_get_fingerprint(ctx) IN
    /\ ctx' = r.ctx
    /\ ret' = Returned("get_fingerprint", r)
    /\ UNCHANGED <<aux, hist, mctx, mret, slotAlg, codec>>

GetRawFingerprint ==
    \E allocated \in BOOLEAN :
        LET r == chromaprint_get_raw_fingerprint(ctx, allocated) IN
        /\ ctx' = r.ctx
        /\ ret' = Returned("get_raw_fingerprint", r)
        /\ UNCHANGED <<aux, hist, mctx, mret, slotAlg, codec>>

GetFingerprintHash ==
    LET r == chromaprint_get_fingerprint_hash(ctx) IN
    /\ ctx' = r.ctx
    /\ ret' = Returned("get_fingerprint_hash", r)
    /\ UNCHANGED <<aux, hist, mctx, mret, slotAlg, codec>>

Next ==
    \/ SetOption
    \/ Start
    \/ Feed
    \/ Finish
    \/ GetFingerprint
    \/ GetRawFingerprint
    \/ GetFingerprintHash

Spec == Init /\ [][Next]_vars

----------------------------------------------------------------------------
(* Calls on the matcher context *)

SlotIndexes == {0 - 1, 0, 1, 2}

\* compressed streams no compressor produced: the empty one (no AlgorithmId
\* byte), one whose last delta code is cut off, one whose delta code runs on
\* past five bytes
MalformedStreams == {<<>>, <<0, 129>>, <<1, 128, 128, 128, 128, 128, 1>>}

EncodedFingerprints ==
    {Base64Encode(CompressFingerprint(fp, a)) :
        fp \in {g \in MatchFingerprints : Len(g) <= 1}, a \in Algorithms}
    \cup {Base64Encode(bytes) : bytes \in MalformedStreams}

\* the AlgorithmId a base64 fingerprint carries, if it decodes
CarriedAlgorithm(fp) ==
    LET d == DecompressFingerprint(Base64Decode(fp))
    IN  IF d.ok THEN {d.algorithm} ELSE {}

MatcherSetFingerprint ==
    \E idx \in SlotIndexes, fp \in EncodedFingerprints :
      \E indeterminate \in
            IF CarriedAlgorithm(fp) = {} THEN 0 .. MaxAlgorithm + 1 ELSE {0} :
        LET r == chromaprint_matcher_set_fingerprint(mctx, idx, fp, indeterminate) IN
        /\ mctx' = r.ctx
        /\ mret' = Returned("set_fingerprint", r)
        /\ slotAlg' = IF idx \in {0, 1}
                        THEN [slotAlg EXCEPT ![idx + 1] = CarriedAlgorithm(fp)]
                        ELSE slotAlg
        /\ UNCHANGED <<aux, ctx, ret, hist, codec>>

MatcherSetRawFingerprint ==
    \E idx \in SlotIndexes, fp \in MatchFingerprints :
        LET r == chromaprint_matcher_set_raw_fingerprint(mctx, idx, fp) IN
        /\ mctx' = r.ctx
        /\ mret' = Returned("set_raw_fingerprint", r)
        /\ slotAlg' = IF idx \in {0, 1}
                        THEN [slotAlg EXCEPT ![idx + 1] = {}]
                        ELSE slotAlg
        /\ UNCHANGED <<aux, ctx, ret, hist, codec>>

MatcherRun ==
    LET r == chromaprint_matcher_run(mctx) IN
    /\ mctx' = r.ctx
    /\ mret' = Returned("run", r)
    /\ UNCHANGED <<aux, ctx, ret, hist, slotAlg, codec>>

MatcherGetNumSegments ==
    LET r == chromaprint_matcher_get_num_segments(mctx) IN
    /\ mctx' = r.ctx
    /\ mret' = Returned("get_num_segments", r)
    /\ UNCHANGED <<aux, ctx, ret, hist, slotAlg, codec>>

MatcherGetSegmentPosition ==
    \E idx \in (0 - 1) .. MaxMatchLen :
        LET r == chromaprint_matcher_get_segment_position(mctx, idx) IN
        /\ mctx' = r.ctx
        /\ mret' = Returned("get_segment_position", r)
        /\ UNCHANGED <<aux, ctx, ret, hist, slotAlg, codec>>

MatcherGetSegmentPositionMs ==
    \E idx \in (0 - 1) .. MaxMatchLen :
        LET r == chromaprint_matcher_get_segment_position_ms(mctx, idx) IN
        /\ mctx' = r.ctx
        /\ mret' = Returned("get_segment_position_ms", r)
        /\ UNCHANGED <<aux, ctx, ret, hist, slotAlg, codec>>

MatcherGetSegmentScore ==
    \E idx \in (0 - 1) .. MaxMatchLen :
        LET r == chromaprint_matcher_get_segment_score(mctx, idx) IN
        /\ mctx' = r.ctx
        /\ mret' = Returned("get_segment_score", r)
        /\ UNCHANGED <<aux, ctx, ret, hist, slotAlg, codec>>

MatcherNext ==
    \/ MatcherSetFingerprint
    \/ MatcherSetRawFingerprint
    \/ MatcherRun
    \/ MatcherGetNumSegments
    \/ MatcherGetSegmentPosition

MatcherSpec == MatcherInit /\ [][MatcherNext]_vars

----------------------------------------------------------------------------
(* Calls of the standalone codec entry points *)

EncodeFingerprint ==
    \E fp \in RawFingerprints, algorithm \in Algorithms, base64 \in {0, 1} :
        LET r == chromaprint_encode_fingerprint(fp, algorithm, base64) IN
        /\ codec' = [op |-> "encode", base64 |-> base64,
                     encoded_fp |-> r.encoded_fp, rc |-> r.rc,
                     fp |-> fp, algorithm |-> algorithm,
                     wrote_algorithm |-> FALSE, whole |-> FALSE,
                     src_fp |-> fp, src_algorithm |-> algorithm]
        /\ UNCHANGED <<aux, ctx, ret, hist, mctx, mret, slotAlg>>

\* what a caller may hand to the decoder: the last encoder output, whole or
\* cut short, or a malformed stream
DecodeInputs ==
    (IF codec.op = "encode"
        THEN {[encoded_fp |-> SubSeq(codec.encoded_fp, 1, n),
               base64 |-> codec.base64,
               whole |-> (n = Len(codec.encoded_fp))] :
                    n \in 0 .. Len(codec.encoded_fp)}
        ELSE {})
    \cup {[encoded_fp |-> bytes, base64 |-> 0, whole |-> FALSE] :
            bytes \in MalformedStreams}
    \cup {[encoded_fp |-> Base64Encode(bytes), base64 |-> 1, whole |-> FALSE] :
            bytes \in MalformedStreams}

DecodeFingerprint ==
    \E in \in DecodeInputs :
        LET r == chromaprint_decode_fingerprint(in.encoded_fp, in.base64) IN
        /\ codec' = [op |-> "decode", base64 |-> in.base64,
                     encoded_fp |-> in.encoded_fp, rc |-> r.rc,
                     fp |-> r.fp,
                     algorithm |-> IF r.wrote_algorithm THEN r.algorithm ELSE 0,
                     wrote_algorithm |-> r.wrote_algorithm, whole |-> in.whole,
                     src_fp |-> codec.src_fp,
                     src_algorithm |-> codec.src_algorithm]
        /\ UNCHANGED <<aux, ctx, ret, hist, mctx, mret, slotAlg>>

CodecNext ==
    \/ EncodeFingerprint
    \/ DecodeFingerprint

CodecSpec == CodecInit /\ [][CodecNext]_vars

----------------------------------------------------------------------------
(* Properties of the fingerprinter context, checked under Spec *)

AccessorOps == {"get_fingerprint", "get_raw_fingerprint", "get_fingerprint_hash"}

\* C1: GetFingerprint, GetRawFingerprint and GetFingerprintHash succeed only
\* when the last lifecycle call on the context was a Finish; when it was not
\* (new context, or a Start since the last Finish) each returns 0 and writes
\* no output.
C1_AccessorsOnlyWhenFinished ==
    ret.op \in AccessorOps =>
        /\ ret.rc = 1 => hist.last = "finish"
        /\ hist.last # "finish" => (ret.rc = 0 /\ ~ret.wrote)

\* An accessor refused after a Start that followed a Finish with a non-empty
\* fingerprint.
C1_Witness ==
    /\ ret.op \in AccessorOps
    /\ hist.last = "start"
    /\ ctx.fingerprint # <<>>
    /\ ret.rc = 0

\* C2: a Feed issued while the last lifecycle call is a Finish returns 0.
C2_FeedAfterFinishFails ==
    (ret.op = "feed" /\ hist.last = "finish") => ret.rc = 0

\* C3: a Start that returns 0 leaves the context as it was: the finished flag,
\* the stored fingerprint and the fingerprinter are unchanged, so the
\* accessors answer as before.
C3_FailedStartLeavesStateUntouched ==
    [][(ret'.op = "start" /\ ret'.rc = 0) =>
            /\ ctx'.finished = ctx.finished
            /\ ctx'.fingerprint = ctx.fingerprint
            /\ ctx'.fingerprinter = ctx.fingerprinter]_vars

\* C4: a Finish with no successful Start open (never started, or already
\* finished) returns 0 and does not change the finished flag.
C4_FinishOutOfOrderFails ==
    [][(ret'.op = "finish" /\ ~hist.open) =>
            (ret'.rc = 0 /\ ctx'.finished = ctx.finished)]_vars

\* C5: once the last lifecycle call is a Finish, no call other than Start
\* changes the fingerprint the accessors read.
C5_FinishedSequenceImmutable ==
    [][(hist.last = "finish" /\ ret'.op # "start") =>
            ctx'.fingerprint = ctx.fingerprint]_vars

----------------------------------------------------------------------------
(* Properties of the matcher context, checked under MatcherSpec *)

\* C6: a Run with slot 0 or slot 1 empty returns 0 and leaves the context
\* reporting zero segments, whatever happened before.
C6_RunOnEmptySlotReportsNoSegments ==
    (mret.op = "run" /\ (mctx.fp[1] = <<>> \/ mctx.fp[2] = <<>>)) =>
        /\ mret.rc = 0
        /\ chromaprint_matcher_get_num_segments(mctx).out = 0

\* C7: a Run succeeds only when no slot holds a sequence that came with an
\* AlgorithmId other than the context's.
C7_RunRejectsAlgorithmMismatch ==
    (mret.op = "run" /\ mret.rc = 1) =>
        (slotAlg[1] \cup slotAlg[2]) \subseteq {mctx.algorithm}

\* C8: a SetFingerprint or SetRawFingerprint that returns 0 leaves both slots
\* and the segment list as they were.
C8_FailedSetFingerprintLeavesSlots ==
    [][(mret'.op \in {"set_fingerprint", "set_raw_fingerprint"} /\ mret'.rc = 0) =>
            (mctx'.fp = mctx.fp /\ mctx'.matcher = mctx.matcher)]_vars

----------------------------------------------------------------------------
(* Properties of the standalone codec, checked under CodecSpec *)

\* the compressed stream the last decode call worked on
CodecStream ==
    IF codec.base64 # 0 THEN Base64Decode(codec.encoded_fp) ELSE codec.encoded_fp

\* C9: DecodeFingerprint returns 0 on a stream the decompressor finds corrupt.
C9_DecodeRejectsCorrupt ==
    (codec.op = "decode" /\ ~DecompressFingerprint(CodecStream).ok) =>
        codec.rc = 0

\* C10: DecodeFingerprint applied to the whole output of EncodeFingerprint(S, A,
\* base64), with the same base64 flag, returns 1 and yields exactly S and A.
C10_CodecRoundTrip ==
    (codec.op = "decode" /\ codec.whole) =>
        /\ codec.rc = 1
        /\ codec.fp = codec.src_fp
        /\ codec.wrote_algorithm
        /\ codec.algorithm = codec.src_algorithm

\* A base64 round trip of a sequence of two different subfingerprints, the
\* second one five bytes long in the delta stream.
C10_Witness ==
    /\ codec.op = "decode"
    /\ codec.whole
    /\ codec.base64 = 1
    /\ codec.rc = 1
    /\ Len(codec.fp) = 2
    /\ codec.fp[1] = 130
    /\ codec.fp[2] = 268435457
    /\ codec.algorithm = 1

----------------------------------------------------------------------------
(* One PCM stream fed to a context in consecutive chunks.  The caller sets  *)
(* the silence threshold, starts the context, hands over pcm.whole in       *)
(* chunks of any length (the whole stream in one call included), and        *)
(* finishes.  pcm.fed counts the samples handed over so far.                *)

PcmStreams == UNION {[1 .. n -> Samples] : n \in 0 .. MaxPcm}

ChunkInit ==
    /\ \E algorithm \in Algorithms : ctx = chromaprint_new(algorithm)
    /\ ret = NoCall
    /\ hist = [last |-> "none", open |-> FALSE]
    /\ mctx = chromaprint_matcher_new(0)
    /\ mret = NoCall
    /\ slotAlg = <<{}, {}>>
    /\ codec = NoCodecCall
    /\ \E whole \in PcmStreams, num_channels \in {1, 2} :
        pcm = [whole |-> whole, fed |-> 0, num_channels |-> num_channels,
               chunks |-> 0, cut |-> FALSE]
    /\ sess = NoSessions

ChunkSetOption ==
    /\ ret.op = "new"
    /\ \E value \in OptionValues :
        LET r == chromaprint_set_option(ctx, "silence_threshold", value) IN
        /\ ctx' = r.ctx
        /\ ret' = Returned("set_option", r)
    /\ UNCHANGED <<hist, mctx, mret, slotAlg, codec, pcm, sess>>

ChunkStart ==
    /\ hist.last = "none"
    /\ LET r == chromaprint_start(ctx, 11025, pcm.num_channels) IN
        /\ ctx' = r.ctx
        /\ ret' = Returned("start", r)
        /\ hist' = [last |-> "start", open |-> hist.open \/ r.rc = 1]
    /\ UNCHANGED <<mctx, mret, slotAlg, codec, pcm, sess>>

ChunkFeed ==
    /\ hist.last = "start"
    /\ \E n \in 0 .. Len(pcm.whole) - pcm.fed :
        LET data == SubSeq(pcm.whole, pcm.fed + 1, pcm.fed + n)
            r == chromaprint_feed(ctx, data)
            inside == /\ pcm.fed + n < Len(pcm.whole)
                      /\ (pcm.fed + n) % (FrameSize * pcm.num_channels) # 0
        IN  /\ ctx' = r.ctx
            /\ ret' = Returned("feed", r)
            /\ pcm' = [pcm EXCEPT !.fed = @ + n,
                                  !.chunks = IF n > 0 THEN @ + 1 ELSE @,
                                  !.cut = @ \/ inside]
    /\ UNCHANGED <<hist, mctx, mret, slotAlg, codec, sess>>

ChunkFinish ==
    /\ hist.last = "start"
    /\ pcm.fed = Len(pcm.whole)
    /\ LET r == chromaprint_finish(ctx) IN
        /\ ctx' = r.ctx
        /\ ret' = Returned("finish", r)
        /\ hist' = [last |-> "finish", open |-> FALSE]
    /\ UNCHANGED <<mctx, mret, slotAlg, codec, pcm, sess>>

ChunkNext ==
    \/ ChunkSetOption
    \/ ChunkStart
    \/ ChunkFeed
    \/ ChunkFinish

ChunkSpec == ChunkInit /\ [][ChunkNext]_vars

\* the context a second caller gets from the same configuration and the
\* whole stream in a single chromaprint_feed
OneShot(c, stream) ==
    LET fresh == chromaprint_new(c.algorithm)
        opt == chromaprint_set_option(fresh, "silence_threshold",
                                      c.fingerprinter.silence_threshold).ctx
        started == chromaprint_start(opt, 11025, stream.num_channels).ctx
        fed == chromaprint_feed(started, stream.whole).ctx
    IN  chromaprint_finish(fed).ctx

\* C11: once the whole stream has been fed in consecutive chunks and the
\* context finished, its fingerprint is the one a single Feed of the whole
\* stream followed by Finish gives under the same configuration, and the
\* raw accessor hands out the same sequence in both.
C11_ChunkingInvariance ==
    hist.last = "finish" =>
        /\ ctx.fingerprint = OneShot(ctx, pcm).fingerprint
        /\ chromaprint_get_raw_fingerprint(ctx, TRUE).out
            = chromaprint_get_raw_fingerprint(OneShot(ctx, pcm), TRUE).out

\* a stream of several frames fed in three or more chunks, one of them
\* ending inside a frame, has been finished
C11_Witness ==
    /\ hist.last = "finish"
    /\ pcm.chunks >= 3
    /\ pcm.cut
    /\ pcm.num_channels = 1
    /\ Len(ctx.fingerprint) >= 2

----------------------------------------------------------------------------
(* Hashing: chromaprint_get_fingerprint_hash on a finished context and the  *)
(* standalone chromaprint_hash_fingerprint on a caller's array.             *)

\* the context after Start, one Feed of the stream and Finish
FinishedContext(algorithm, stream) ==
    LET started == chromaprint_start(chromaprint_new(algorithm), 11025, 1).ctx
    IN  chromaprint_finish(chromaprint_feed(started, stream).ctx).ctx

HashInit ==
    /\ \E stream \in PcmStreams : ctx = FinishedContext(0, stream)
    /\ ret = Returned("finish", chromaprint_finish(ctx))
    /\ hist = [last |-> "finish", open |-> FALSE]
    /\ mctx = chromaprint_matcher_new(0)
    /\ mret = NoCall
    /\ slotAlg = <<{}, {}>>
    /\ codec = NoCodecCall
    /\ pcm = NoStream
    /\ sess = NoSessions

\* a call with an array of `size` items and both pointers given
HashFingerprint ==
    \E fp \in HashFingerprints \cup {ctx.fingerprint} :
        LET r == chromaprint_hash_fingerprint(fp, Len(fp), FALSE, FALSE)
        IN  /\ codec' = [op |-> "hash", fp |-> fp, size |-> Len(fp),
                         fp_null |-> FALSE, hash_null |-> FALSE,
                         rc |-> r.rc, wrote |-> r.wrote, out |-> r.out]
            /\ UNCHANGED <<ctx, ret, hist, mctx, mret, slotAlg, pcm, sess>>

\* a call with fp == NULL, with a negative size, or with hash == NULL
HashFingerprintBadArgument ==
    \E fp \in {<<>>, ctx.fingerprint} :
      \E args \in {[size |-> Len(fp), fp_null |-> TRUE, hash_null |-> FALSE],
                   [size |-> Len(fp), fp_null |-> FALSE, hash_null |-> TRUE],
                   [size |-> 0 - 1, fp_null |-> FALSE, hash_null |-> FALSE]} :
        LET r == chromaprint_hash_fingerprint(fp, args.size, args.fp_null,
                                              args.hash_null)
        IN  /\ codec' = [op |-> "hash", fp |-> fp, size |-> args.size,
                         fp_null |-> args.fp_null, hash_null |-> args.hash_null,
                         rc |-> r.rc, wrote |-> r.wrote, out |-> r.out]
            /\ UNCHANGED <<ctx, ret, hist, mctx, mret, slotAlg, pcm, sess>>

HashNext ==
    \/ GetFingerprintHash
    \/ HashFingerprint
    \/ HashFingerprintBadArgument

HashSpec == HashInit /\ [][HashNext]_vars

\* bit b of the word w, counted from the least significant bit
RECURSIVE Bit(_, _)
Bit(w, b) == IF b = 0 THEN w % 2 ELSE Bit(w \div 2, b - 1)

\* w without its b lowest bits
RECURSIVE ShiftRight(_, _)
ShiftRight(w, b) == IF b = 0 THEN w ELSE ShiftRight(w \div 2, b - 1)

\* h is a 32-bit word whose bit b is set exactly when strictly more items of
\* fp have bit b set than have it clear
IsMajorityDigest(fp, h) ==
    /\ h >= 0
    /\ ShiftRight(h, 32) = 0
    /\ \A b \in 0 .. 31 :
        Bit(h, b) = 1 <=>
            2 * Cardinality({i \in 1 .. Len(fp) : Bit(fp[i], b) = 1}) > Len(fp)

----------------------------------------------------------------------------
(* The normalized score of one segment.  A Run leaves segments whose raw    *)
(* score is the mean bit distance of the segment's pairs: a fraction        *)
(* sum / count with 0 <= sum <= 32 * count.  The initial states range over  *)
(* these segments; the call reads the score.                                *)

ScoreSegments ==
    {[pos1 |-> 0, pos2 |-> 0, duration |-> p[1],
      score |-> [sum |-> p[2], count |-> p[1]]] :
        p \in {q \in (1 .. MaxScoreCount) \X (0 .. 32 * MaxScoreCount) :
                    q[2] <= 32 * q[1]}}

\* a matcher context that holds the one segment seg
WithSegment(seg) ==
    [chromaprint_matcher_new(0) EXCEPT
        !.fp = <<[i \in 1 .. seg.duration |-> 0], [i \in 1 .. seg.duration |-> 0]>>,
        !.matcher.segments = <<seg>>]

ScoreInit ==
    /\ ctx = chromaprint_new(0)
    /\ ret = NoCall
    /\ hist = [last |-> "none", open |-> FALSE]
    /\ \E seg \in ScoreSegments : mctx = WithSegment(seg)
    /\ mret = NoCall
    /\ slotAlg = <<{}, {}>>
    /\ codec = NoCodecCall
    /\ pcm = NoStream
    /\ sess = NoSessions

ScoreNext ==
    \/ MatcherGetNumSegments
    \/ MatcherGetSegmentScore

ScoreSpec == ScoreInit /\ [][ScoreNext]_vars

\* C13: for a segment of raw score r = sum / count in [0, 32] the score read
\* is the integer nearest to 100 * (1 - r / 32) (a half rounds up), lies in
\* [0, 100], is 100 for r = 0 and 0 for r = 32, and no segment of a larger
\* raw score reads a larger score.
C13_NormalizedScore ==
    (mret.op = "get_segment_score" /\ mret.rc = 1) =>
        LET score == mctx.matcher.segments[1].score
            num == 3200 * score.count - 100 * score.sum
            den == 32 * score.count
        IN  /\ mret.out \in 0 .. 100
            /\ 2 * num - den < 2 * den * mret.out
            /\ 2 * den * mret.out <= 2 * num + den
            /\ (score.sum = 0 => mret.out = 100)
            /\ (score.sum = 32 * score.count => mret.out = 0)
            /\ \A seg \in ScoreSegments :
                seg.score.sum * score.count >= score.sum * seg.score.count =>
                    chromaprint_matcher_get_segment_score(WithSegment(seg), 0).out
                        <= mret.out

\* the score of a segment of raw score 4 (87.5 before rounding) was read
C13_Witness ==
    /\ mret.op = "get_segment_score"
    /\ mret.rc = 1
    /\ mctx.matcher.segments[1].score = [sum |-> 8, count |-> 2]
    /\ mret.out = 88

----------------------------------------------------------------------------
(* The segments of one Run.  The caller has filled both slots; it runs the  *)
(* matcher and reads the segment count and the segments.                    *)

OrderFingerprints == UNION {[1 .. n -> MatchWords] : n \in 0 .. MaxOrderLen}

SegmentInit ==
    /\ ctx = chromaprint_new(0)
    /\ ret = NoCall
    /\ hist = [last |-> "none", open |-> FALSE]
    /\ \E fp1 \in OrderFingerprints, fp2 \in OrderFingerprints :
        LET first == chromaprint_matcher_set_raw_fingerprint(
                        chromaprint_matcher_new(0), 0, fp1)
            second == chromaprint_matcher_set_raw_fingerprint(first.ctx, 1, fp2)
        IN  /\ mctx = second.ctx
            /\ mret = Returned("set_raw_fingerprint", second)
    /\ slotAlg = <<{}, {}>>
    /\ codec = NoCodecCall
    /\ pcm = NoStream
    /\ sess = NoSessions

SegmentNext ==
    \/ MatcherRun
    \/ MatcherGetNumSegments
    \/ MatcherGetSegmentPosition
    \/ MatcherGetSegmentPositionMs
    \/ MatcherGetSegmentScore

SegmentSpec == SegmentInit /\ [][SegmentNext]_vars

\* the segment count chromaprint_matcher_get_num_segments reports
SegmentCount(m) == chromaprint_matcher_get_num_segments(m).out

\* the segment chromaprint_matcher_get_segment_position reports at index idx
GetSegment(m, idx) == chromaprint_matcher_get_segment_position(m, idx).out

SegmentIndexes == (0 - 2) .. (MaxOrderLen + 1)

\* C15: each of the three segment accessors succeeds exactly for the indexes
\* 0 <= idx < SegmentCount and otherwise returns 0, writes no output and
\* leaves the context alone; the three agree on every index.
C15_SegmentIndexRange ==
    /\ \A idx \in SegmentIndexes :
        LET position == chromaprint_matcher_get_segment_position(mctx, idx)
            position_ms == chromaprint_matcher_get_segment_position_ms(mctx, idx)
            score == chromaprint_matcher_get_segment_score(mctx, idx)
            valid == 0 <= idx /\ idx < SegmentCount(mctx)
            Refuses(r) == r.rc = 0 /\ ~r.wrote /\ r.ctx = mctx
            Answers(r) == r.rc = 1 /\ r.wrote /\ r.ctx = mctx
        IN  IF valid
                THEN Answers(position) /\ Answers(position_ms) /\ Answers(score)
                ELSE Refuses(position) /\ Refuses(position_ms) /\ Refuses(score)
    /\ mret.op \in {"get_segment_position", "get_segment_position_ms",
                    "get_segment_score"} =>
        /\ mret.rc \in {0, 1}
        /\ mret.rc = 0 => ~mret.wrote
        /\ mret.rc = 1 => mret.wrote /\ SegmentCount(mctx) > 0

\* with two segments present the millisecond position of the last one was
\* read
C15_Witness ==
    /\ mret.op = "get_segment_position_ms"
    /\ mret.rc = 1
    /\ SegmentCount(mctx) = 2
    /\ mret.out.pos1 > 0

----------------------------------------------------------------------------
(* Several contexts at once.  Each caller creates a fingerprinter context   *)
(* or a matcher context, works on it through its handle, and frees it; the  *)
(* callers' calls interleave in any order.  sess.heap and sess.mheap are    *)
(* the objects `new` handed out, by address; sess.alone[c] and              *)
(* sess.malone[c] are the context caller c would hold had it made its calls *)
(* with no other caller around.  A caller takes its fingerprinter context   *)
(* through Start, Feed and Finish once, in this order; sess.stage[c] is how *)
(* far caller c has got.  A freed object's storage and a caller's record of *)
(* a freed context are wiped, as nothing can read them.                     *)

Callers == 1 .. NumCallers

Addresses == 1 .. NumCallers

\* operator new handing out one and the same object on every call
NewObject_static(live) == 1

\* operator new (lines 59, 171): an object that is none of the live ones
NewObject(live) == CHOOSE a \in Addresses : a \notin live

IndepInit ==
    /\ ctx = chromaprint_new(0)
    /\ ret = NoCall
    /\ hist = [last |-> "none", open |-> FALSE]
    /\ mctx = chromaprint_matcher_new(0)
    /\ mret = NoCall
    /\ slotAlg = <<{}, {}>>
    /\ codec = NoCodecCall
    /\ pcm = NoStream
    /\ sess = [live |-> {},
               heap |-> [a \in Addresses |-> chromaprint_new(0)],
               mlive |-> {},
               mheap |-> [a \in Addresses |-> chromaprint_matcher_new(0)],
               kind |-> [c \in Callers |-> "none"],
               stage |-> [c \in Callers |-> "new"],
               handle |-> [c \in Callers |-> 0],
               alone |-> [c \in Callers |-> chromaprint_new(0)],
               malone |-> [c \in Callers |-> chromaprint_matcher_new(0)]]

IndepOthers == <<ctx, ret, hist, mctx, mret, slotAlg, codec, pcm>>

\* the fingerprinter context, the matcher context caller c's handle points to
Held(c) == sess.heap[sess.handle[c]]

MatcherHeld(c) == sess.mheap[sess.handle[c]]

\* caller c's call on its fingerprinter context: `shared` is the context the
\* call leaves behind the handle, `own` the one it leaves with c alone
OnContext(c, shared, own, stage) ==
    /\ sess.kind[c] = "fingerprinter"
    /\ sess' = [sess EXCEPT !.heap[sess.handle[c]] = shared,
                            !.alone[c] = own,
                            !.stage[c] = stage]
    /\ UNCHANGED IndepOthers

\* caller c's call on its matcher context
OnMatcherContext(c, shared, own) ==
    /\ sess.kind[c] = "matcher"
    /\ sess' = [sess EXCEPT !.mheap[sess.handle[c]] = shared,
                            !.malone[c] = own]
    /\ UNCHANGED IndepOthers

IndepNew ==
    \E c \in Callers : \E algorithm \in {c % 2} :
        /\ sess.kind[c] = "none"
        /\ LET a == NewObject(sess.live) IN
            sess' = [sess EXCEPT !.live = @ \cup {a},
                                 !.heap[a] = chromaprint_new(algorithm),
                                 !.kind[c] = "fingerprinter",
                                 !.stage[c] = "new",
                                 !.handle[c] = a,
                                 !.alone[c] = chromaprint_new(algorithm)]
        /\ UNCHANGED IndepOthers

IndepFree ==
    \E c \in Callers :
        /\ sess.kind[c] = "fingerprinter"
        /\ sess' = [sess EXCEPT !.live = @ \ {sess.handle[c]},
                                !.heap[sess.handle[c]] = chromaprint_new(0),
                                !.kind[c] = "none",
                                !.stage[c] = "new",
                                !.handle[c] = 0,
                                !.alone[c] = chromaprint_new(0)]
        /\ UNCHANGED IndepOthers

IndepStart ==
    \E c \in Callers, sample_rate \in SampleRates :
        /\ sess.kind[c] = "fingerprinter"
        /\ sess.stage[c] = "new"
        /\ OnContext(c, chromaprint_start(Held(c), sample_rate, 1).ctx,
                        chromaprint_start(sess.alone[c], sample_rate, 1).ctx,
                        IF chromaprint_start(sess.alone[c], sample_rate, 1).rc = 1
                            THEN "started" ELSE sess.stage[c])

IndepFeed ==
    \E c \in Callers :
        /\ sess.kind[c] = "fingerprinter"
        /\ sess.stage[c] = "started"
        /\ FramesAfterFinish(
                chromaprint_feed(sess.alone[c], <<1>>).ctx.fingerprinter)
            <= MaxFrames
        /\ OnContext(c, chromaprint_feed(Held(c), <<1>>).ctx,
                        chromaprint_feed(sess.alone[c], <<1>>).ctx, "started")

IndepFinish ==
    \E c \in Callers :
        /\ sess.kind[c] = "fingerprinter"
        /\ sess.stage[c] = "started"
        /\ OnContext(c, chromaprint_finish(Held(c)).ctx,
                        chromaprint_finish(sess.alone[c]).ctx, "finished")

IndepMatcherNew ==
    \E c \in Callers : \E version \in {c % 2} :
        /\ sess.kind[c] = "none"
        /\ LET a == NewObject(sess.mlive) IN
            sess' = [sess EXCEPT !.mlive = @ \cup {a},
                                 !.mheap[a] = chromaprint_matcher_new(version),
                                 !.kind[c] = "matcher",
                                 !.handle[c] = a,
                                 !.malone[c] = chromaprint_matcher_new(version)]
        /\ UNCHANGED IndepOthers

IndepMatcherFree ==
    \E c \in Callers :
        /\ sess.kind[c] = "matcher"
        /\ sess' = [sess EXCEPT !.mlive = @ \ {sess.handle[c]},
                                !.mheap[sess.handle[c]] = chromaprint_matcher_new(0),
                                !.kind[c] = "none",
                                !.handle[c] = 0,
                                !.malone[c] = chromaprint_matcher_new(0)]
        /\ UNCHANGED IndepOthers

IndepMatcherSetRawFingerprint ==
    \E c \in Callers, idx \in {0, 1}, fp \in {<<>>, <<0>>} :
        /\ sess.kind[c] = "matcher"
        /\ OnMatcherContext(c,
            chromaprint_matcher_set_raw_fingerprint(MatcherHeld(c), idx, fp).ctx,
            chromaprint_matcher_set_raw_fingerprint(sess.malone[c], idx, fp).ctx)

IndepMatcherRun ==
    \E c \in Callers :
        /\ sess.kind[c] = "matcher"
        /\ OnMatcherContext(c, chromaprint_matcher_run(MatcherHeld(c)).ctx,
                               chromaprint_matcher_run(sess.malone[c]).ctx)

IndepNext ==
    \/ IndepNew
    \/ IndepFree
    \/ IndepStart
    \/ IndepFeed
    \/ IndepFinish
    \/ IndepMatcherNew
    \/ IndepMatcherFree
    \/ IndepMatcherSetRawFingerprint
    \/ IndepMatcherRun

IndepSpec == IndepInit /\ [][IndepNext]_vars

\* C16: whatever the other callers did in between, the context each caller
\* holds is the one its own calls alone produce, so every result it reads
\* from it is the result of running alone; and no two callers hold the same
\* object.
C16_SessionsIndependent ==
    /\ \A c \in Callers :
        /\ sess.kind[c] = "fingerprinter" =>
            /\ Held(c) = sess.alone[c]
            /\ \A allocated \in BOOLEAN :
                chromaprint_get_raw_fingerprint(Held(c), allocated)
                    = chromaprint_get_raw_fingerprint(sess.alone[c], allocated)
        /\ sess.kind[c] = "matcher" =>
            /\ MatcherHeld(c) = sess.malone[c]
            /\ chromaprint_matcher_get_num_segments(MatcherHeld(c))
                = chromaprint_matcher_get_num_segments(sess.malone[c])
    /\ \A c \in Callers, d \in Callers :
        (c # d /\ sess.kind[c] = sess.kind[d] /\ sess.kind[c] # "none") =>
            sess.handle[c] # sess.handle[d]

\* two fingerprinter contexts are live, one finished with a fingerprint and
\* the other started and fed but not finished
C16_Witness ==
    /\ \A c \in Callers : sess.kind[c] = "fingerprinter"
    /\ \E c \in Callers, d \in Callers :
        /\ Held(c).finished
        /\ Held(c).fingerprint # <<>>
        /\ ~Held(d).finished
        /\ Held(d).fingerprinter.pending # <<>>

----------------------------------------------------------------------------
(* The context's accessors against the standalone entry points *)

\* C17: what chromaprint_get_fingerprint hands out of a finished context is
\* what chromaprint_encode_fingerprint makes, with base64 on, of the raw
\* fingerprint and the context's algorithm, and decoding it gives back that
\* raw fingerprint and algorithm; what chromaprint_get_fingerprint_hash
\* hands out is what chromaprint_hash_fingerprint makes of the raw
\* fingerprint.
C17_AccessorsAgreeWithStandalone ==
    LET raw == chromaprint_get_raw_fingerprint(ctx, TRUE).out IN
    /\ (ret.op = "get_fingerprint" /\ ret.rc = 1) =>
        LET encoded == chromaprint_encode_fingerprint(raw.data, ctx.algorithm, 1)
            decoded == chromaprint_decode_fingerprint(ret.out, 1)
        IN  /\ encoded.rc = 1
            /\ ret.out = encoded.encoded_fp
            /\ Len(ret.out) = encoded.encoded_size
            /\ decoded.rc = 1
            /\ decoded.fp = raw.data
            /\ decoded.size = raw.size
            /\ decoded.wrote_algorithm
            /\ decoded.algorithm = ctx.algorithm
    /\ (ret.op = "get_fingerprint_hash" /\ ret.rc = 1) =>
        LET hashed == chromaprint_hash_fingerprint(raw.data, raw.size, FALSE, FALSE)
        IN  /\ hashed.rc = 1
            /\ ret.out = hashed.out
    /\ (ret.op \in {"get_fingerprint", "get_fingerprint_hash"} /\ ctx.finished) =>
        ret.rc = 1

\* the text form of a non-empty fingerprint made under algorithm 1 was read
C17_Witness ==
    /\ ret.op = "get_fingerprint"
    /\ ret.rc = 1
    /\ ctx.algorithm = 1
    /\ ctx.fingerprint # <<>>
    /\ \E i \in 1 .. Len(ctx.fingerprint) : ctx.fingerprint[i] # 0

----------------------------------------------------------------------------
(* What the matcher calls leave alone.  The caller fills and refills the   *)
(* slots, raw or from well-formed base64 text of either algorithm, runs the *)
(* matcher and reads the segments, in any order.                            *)

FrameSetFingerprint ==
    \E idx \in {0, 1}, algorithm \in Algorithms :
      \E raw \in {g \in MatchFingerprints : Len(g) = 1} :
        LET fp == chromaprint_encode_fingerprint(raw, algorithm, 1).encoded_fp
            r == chromaprint_matcher_set_fingerprint(mctx, idx, fp, 0)
        IN  /\ mctx' = r.ctx
            /\ mret' = Returned("set_fingerprint", r)
            /\ UNCHANGED <<aux, ctx, ret, hist, slotAlg, codec>>

FrameSetRawFingerprint ==
    \E idx \in {0, 1, 2}, fp \in MatchFingerprints :
        LET r == chromaprint_matcher_set_raw_fingerprint(mctx, idx, fp) IN
        /\ mctx' = r.ctx
        /\ mret' = Returned("set_raw_fingerprint", r)
        /\ UNCHANGED <<aux, ctx, ret, hist, slotAlg, codec>>

FrameNext ==
    \/ FrameSetFingerprint
    \/ FrameSetRawFingerprint
    \/ MatcherRun
    \/ MatcherGetNumSegments
    \/ MatcherGetSegmentPosition
    \/ MatcherGetSegmentPositionMs
    \/ MatcherGetSegmentScore

FrameSpec == MatcherInit /\ [][FrameNext]_vars

SetOps == {"set_fingerprint", "set_raw_fingerprint"}

SegmentOps ==
    {"get_num_segments", "get_segment_position", "get_segment_position_ms",
     "get_segment_score"}

====
